---------------------------- MODULE Spec2Model ----------------------------
(***************************************************************************)
(* A model of rust_sync: the Tree Differ (_sync_tree), the per-server      *)
(* reconciliation cycle (_run_cycle), the runtime controller               *)
(* (SyncController), the scheduler loop (SyncRunner) and the hot restart   *)
(* of the engine (WebRuntime.restart).                                     *)
(*                                                                         *)
(* The module holds several specifications over one set of variables:      *)
(*   SpecTree   one _sync_tree call after another on one pair of trees     *)
(*   SpecCycle  the scheduler's ticks over the configured servers          *)
(*   SpecCtl    concurrent callers of request_run_once / consume_run_once  *)
(*   SpecWeb    the runner threads, the dashboard's handlers and restart   *)
(* Each specification moves its own variables and leaves the others at     *)
(* their initial value.                                                    *)
(***************************************************************************)
EXTENDS Integers, Sequences, FiniteSets, TLC

VARIABLES
    \* ---- Tree Differ: the arguments of _sync_tree and its progress ----
    tSrc,       \* source tree: relative path -> content, or Absent
    tDest,      \* destination tree: relative path -> content, or Absent
    tDirs,      \* directories that exist under the destination
    tInc,       \* include_patterns (a list of glob patterns)
    tExc,       \* exclude_patterns
    tDel,       \* delete_extraneous
    tDry,       \* dry_run
    tPc,        \* "idle" | "copy" | "delete" | "done"
    tTodo,      \* keys of src_files the create/update loop has not visited
    tExtras,    \* extras the delete loop has not visited
    tCall,      \* record of the calls made so far, see TreeCallInit
    \* ---- SyncController objects, one per create_runtime call ----
    cPaused,    \* controller -> _paused
    cDry,       \* controller -> _dry_run_override
    cRunOnce,   \* controller -> _run_once.is_set()
    \* ---- callers of request_run_once / consume_run_once (SpecCtl) ----
    kPc,        \* caller -> "idle" | "checked" (is_set() seen True, clear() not yet called)
    kReq,       \* request_run_once calls completed
    kTrue,      \* consume_run_once calls that returned True
    kFalse,     \* consume_run_once calls that returned False
    \* ---- WebRuntime ----
    wCur,       \* the runtime (state, controller, runner) WebRuntime refers to
    wThread,    \* self.thread: the runner whose thread it is, or NoThread
    wNext,      \* number of create_runtime calls made
    wLock,      \* WebRuntime._lock: Free, or the restart holding it
    \* ---- WebRuntime.restart calls in progress ----
    rsPc,       \* restart -> "idle" | "join" | "install"
    rsPrev,     \* restart -> prev_thread
    rsPaused,   \* restart -> paused (read from prev_controller)
    rsDry,      \* restart -> dry_run (read from prev_controller)
    rsNew,      \* restart -> its new_settings argument
    \* ---- save_config and what it works on ----
    wSettings,  \* WebRuntime.settings
    cfgFile,    \* the document in the file at config_path
    resp,       \* request -> the response save_config last returned
    \* ---- dashboard handlers (pause, resume, dry-run, run-once) ----
    hPc,        \* handler -> "idle" | "got" (runtime.get_controller() returned)
    hCtl,       \* handler -> the controller it got
    hOp,        \* handler -> the request it serves
    intent,     \* the operator's most recent pause/resume and dry-run requests
    \* ---- SyncRunner threads, one per runner ----
    rPc,        \* runner -> position of its thread, see RunnerPcs
    rStop,      \* runner -> _stop_event.is_set()
    rSleep,     \* runner -> `remaining` of _sleep_with_stop
    rForced,    \* runner -> the cycle in progress was started by a run-once request
    \* ---- the reconciliation cycle (_run_cycle) and what it works on ----
    settings,   \* the Settings value _settings_from_config produced
    repo,       \* server -> the clone: HEAD, origin/<branch>, and the remote's tip
    targets,    \* server -> the commit whose files plugins_target / config_target hold
    status,     \* SyncState._servers: server -> ServerStatus
    history,    \* SyncState._history
    clock,      \* the time _utc_now_iso() reads, in server cycles begun
    ticks,      \* _run_cycle calls made
    cy,         \* the locals of the _run_cycle call in progress, see CyIdle
    \* ---- SyncState seen from its callers ----
    appends,   \* add_history calls made
    recs,       \* the DeploymentRecord objects made: id -> its __dict__
    snap,       \* the value a snapshot() call returned to the dashboard, see NoSnap
    upd,        \* the last update_server_status call: its name and keyword names,
                \* and whether a call so far named a server the state does not have
    \* ---- the operator's calls on the controller of a running loop ----
    lc          \* the last call made, and what the loop was doing then

treeVars == <<tSrc, tDest, tDirs, tInc, tExc, tDel, tDry, tPc, tTodo, tExtras, tCall>>
ctlVars == <<cPaused, cDry, cRunOnce>>
callerVars == <<kPc, kReq, kTrue, kFalse>>
webVars == <<wCur, wThread, wNext, wLock, rsPc, rsPrev, rsPaused, rsDry,
             rsNew, wSettings, cfgFile, resp,
             hPc, hCtl, hOp, intent>>
runnerVars == <<rPc, rStop, rSleep, rForced>>

cycleVars == <<settings, repo, targets, status, history, clock, ticks, cy>>

stateVars == <<appends, recs, snap, upd>>
loopVars == <<lc>>

vars == <<treeVars, ctlVars, callerVars, webVars, runnerVars, cycleVars,
          stateVars, loopVars>>

\* What the actions of one part of the program leave alone.
notTree == <<ctlVars, callerVars, webVars, runnerVars, cycleVars, stateVars, loopVars>>
notCtl == <<treeVars, webVars, runnerVars, cycleVars, stateVars, loopVars>>
notWeb == <<treeVars, callerVars, cycleVars, stateVars, loopVars>>
notCycle == <<treeVars, callerVars, webVars, runnerVars, stateVars, loopVars>>
notState == <<treeVars, ctlVars, callerVars, webVars, runnerVars, loopVars,
              settings, repo, targets, clock, ticks, cy>>

\* Before any direct call on SyncState, and before any call on a running
\* loop's controller.
NoSnap == [taken |-> FALSE, servers |-> <<>>, history |-> <<>>, writes |-> 0]
NoUpdate == [called |-> FALSE, name |-> "none", keys |-> {}, unknown |-> FALSE]
StateParked == appends = 0 /\ recs = <<>> /\ snap = NoSnap /\ upd = NoUpdate
LoopParked == lc = [op |-> "none", pc |-> "new", paused |-> FALSE, left |-> 0]

(***************************************************************************)
(* Paths and glob patterns are sequences of tokens.  "/" separates path    *)
(* segments, "*" is the wildcard of a pattern, every other token is a      *)
(* literal piece of a name.                                                *)
(***************************************************************************)
Absent == "absent"
Contents == {"v1", "v2"}

PathA == <<"a", ".cs">>
PathSubB == <<"sub", "/", "b", ".cs">>
PathN == <<"n", ".txt">>
Paths == {PathA, PathSubB, PathN}

PatStarCs == <<"*", ".cs">>
PatB == <<"b", ".cs">>
PatStarTxt == <<"*", ".txt">>
PatSubStar == <<"sub", "/", "*">>

\* fnmatch.fnmatch(name, pat): the whole name against the pattern; "*" matches
\* any run of tokens, "/" included.
RECURSIVE Fnmatch(_, _)
Fnmatch(name, pat) ==
    IF pat = <<>> THEN name = <<>>
    ELSE IF Head(pat) = "*"
         THEN Fnmatch(name, Tail(pat))
              \/ (name # <<>> /\ Fnmatch(Tail(name), pat))
         ELSE name # <<>> /\ Head(name) = Head(pat)
              /\ Fnmatch(Tail(name), Tail(pat))

\* The segments of a path or of a pattern.
RECURSIVE Split(_)
Split(s) ==
    IF \A i \in 1..Len(s) : s[i] # "/" THEN <<s>>
    ELSE LET k == CHOOSE i \in 1..Len(s) :
                      s[i] = "/" /\ \A j \in 1..(i - 1) : s[j] # "/"
         IN  <<SubSeq(s, 1, k - 1)>> \o Split(SubSeq(s, k + 1, Len(s)))

\* base.rglob(pattern) yields rel: the pattern's segments match the last
\* segments of rel, a "*" never crossing a "/".
RglobMatch(rel, pat) ==
    LET rs == Split(rel)
        ps == Split(pat)
    IN  /\ Len(rs) >= Len(ps)
        /\ \A i \in 1..Len(ps) : Fnmatch(rs[Len(rs) - Len(ps) + i], ps[i])

\* The directories dest_path.parent.mkdir(parents=True) makes sure exist.
ParentDirs(rel) ==
    {SubSeq(rel, 1, i - 1) : i \in {j \in 1..Len(rel) : rel[j] = "/"}}

Range(seq) == {seq[i] : i \in 1..Len(seq)}

\* The keys of _collect_files(base, includes, excludes).
CollectFiles(tree, includes, excludes) ==
    {rel \in Paths :
        /\ tree[rel] # Absent
        /\ \E pat \in Range(includes) : RglobMatch(rel, pat)
        /\ ~ \E ex \in Range(excludes) : Fnmatch(rel, ex)}

\* _hash_file: the SHA-256 digest of the file's bytes.
HashFile(tree, rel) == <<"sha256", tree[rel]>>

SameHashNever(src, dst, rel) == FALSE

\* src_hash == dest_hash
SameHash(src, dst, rel) == HashFile(src, rel) = HashFile(dst, rel)

ExtrasNone(destFiles, srcFiles) == {}

\* extras = set(dest_files.keys()) - set(src_files.keys())
Extras(destFiles, srcFiles) == destFiles \ srcFiles

DeleteAlways(flag) == TRUE

\* if delete_extraneous:
DeleteWanted(flag) == flag

(***************************************************************************)
(* The calls of _sync_tree.  tCall remembers, for every call made so far,  *)
(* the destination before the call, the operations it performed and what   *)
(* it returned.                                                            *)
(***************************************************************************)
MaxCalls == 2

IncludeChoices == {<<PatStarCs>>, <<PatB, PatStarTxt>>}
ExcludeChoices == {<<>>, <<PatSubStar>>}

Trees == [Paths -> Contents \cup {Absent}]

\* A destination is a tree with the directories its files lie in.
DirsOfTree(tree) == UNION {ParentDirs(rel) : rel \in {p \in Paths : tree[p] # Absent}}
AllDirs == UNION {ParentDirs(rel) : rel \in Paths}

TreeCallInit == <<>>

TreeInit ==
    /\ tSrc \in Trees
    /\ tDest \in Trees
    /\ tDirs \in {d \in SUBSET AllDirs : DirsOfTree(tDest) \subseteq d}
    /\ tInc \in IncludeChoices
    /\ tExc \in ExcludeChoices
    /\ tDel \in BOOLEAN
    /\ tDry \in BOOLEAN
    /\ tPc = "idle"
    /\ tTodo = {}
    /\ tExtras = {}
    /\ tCall = TreeCallInit

TreeParked ==
    /\ tSrc = [p \in Paths |-> Absent]
    /\ tDest = [p \in Paths |-> Absent]
    /\ tDirs = {}
    /\ tInc = <<PatStarCs>>
    /\ tExc = <<>>
    /\ tDel = FALSE
    /\ tDry = FALSE
    /\ tPc = "idle"
    /\ tTodo = {}
    /\ tExtras = {}
    /\ tCall = TreeCallInit

SrcFiles == CollectFiles(tSrc, tInc, tExc)

\* The current call's record, and the record with one more operation or with
\* the value returned.
CurCall == tCall[Len(tCall)]
Performed(op) == [tCall EXCEPT ![Len(tCall)].ops = @ \cup {op}]
Returned(calls, value) == [calls EXCEPT ![Len(calls)].ret = value]

AfterCopyDeletesEarly(todo, destFiles) ==
    IF DeleteWanted(tDel) /\ Extras(destFiles, SrcFiles) # {}
    THEN [pc |-> "delete", extras |-> Extras(destFiles, SrcFiles), ret |-> "none"]
    ELSE IF todo # {} THEN [pc |-> "copy", extras |-> {}, ret |-> "none"]
         ELSE [pc |-> "done", extras |-> {}, ret |-> "true"]

\* Where the call goes once the create/update loop has `todo` left, and once
\* the delete loop has `extras` left.
AfterCopy(todo, destFiles) ==
    IF todo # {} THEN [pc |-> "copy", extras |-> {}, ret |-> "none"]
    ELSE IF DeleteWanted(tDel) /\ Extras(destFiles, SrcFiles) # {}
         THEN [pc |-> "delete", extras |-> Extras(destFiles, SrcFiles), ret |-> "none"]
         ELSE [pc |-> "done", extras |-> {}, ret |-> "true"]

\* _sync_tree is entered: both inventories are collected.
SyncTreeStart ==
    /\ tPc \in {"idle", "done"}
    /\ Len(tCall) < MaxCalls
    /\ LET destFiles == CollectFiles(tDest, tInc, tExc)
           nxt == AfterCopy(SrcFiles, destFiles)
           rec == [dest0 |-> tDest, dirs0 |-> tDirs, destFiles |-> destFiles,
                   ops |-> {}, ret |-> nxt.ret]
       IN  /\ tCall' = Append(tCall, rec)
           /\ tTodo' = SrcFiles
           /\ tExtras' = nxt.extras
           /\ tPc' = nxt.pc
    /\ UNCHANGED <<tSrc, tDest, tDirs, tInc, tExc, tDel, tDry, notTree>>

\* One iteration of `for rel, src_file in src_files.items()`; copyOk is
\* whether shutil.copy2 succeeds when it is called.
SyncTreeCopy(rel, copyOk) ==
    /\ tPc = "copy"
    /\ rel \in tTodo
    /\ tDirs' = tDirs \cup ParentDirs(rel)
    /\ LET exists == tDest[rel] # Absent
           skip == exists /\ SameHash(tSrc, tDest, rel)
           action == IF exists THEN "update" ELSE "create"
           nxt == AfterCopy(tTodo \ {rel}, CurCall.destFiles)
       IN  IF skip \/ tDry
           THEN /\ tDest' = tDest
                /\ tCall' = Returned(tCall, nxt.ret)
                /\ tTodo' = tTodo \ {rel}
                /\ tExtras' = nxt.extras
                /\ tPc' = nxt.pc
           ELSE IF copyOk
           THEN /\ tDest' = [tDest EXCEPT ![rel] = tSrc[rel]]
                /\ tCall' = Returned(Performed(<<action, rel>>), nxt.ret)
                /\ tTodo' = tTodo \ {rel}
                /\ tExtras' = nxt.extras
                /\ tPc' = nxt.pc
           ELSE /\ tDest' = tDest
                /\ tCall' = Returned(tCall, "false")
                /\ tTodo' = tTodo \ {rel}
                /\ tExtras' = {}
                /\ tPc' = "done"
    /\ UNCHANGED <<tSrc, tInc, tExc, tDel, tDry, notTree>>

\* One iteration of `for rel in extras`; unlinkOk is whether path.unlink()
\* succeeds when it is called.
SyncTreeDelete(rel, unlinkOk) ==
    /\ tPc = "delete"
    /\ rel \in tExtras
    /\ LET left == tExtras \ {rel}
           ret == IF left = {} THEN "true" ELSE "none"
           pc == IF left = {} THEN "done" ELSE "delete"
       IN  IF tDry
           THEN /\ tDest' = tDest
                /\ tCall' = Returned(tCall, ret)
                /\ tExtras' = left
                /\ tPc' = pc
           ELSE IF unlinkOk
           THEN /\ tDest' = [tDest EXCEPT ![rel] = Absent]
                /\ tCall' = Returned(Performed(<<"delete", rel>>), ret)
                /\ tExtras' = left
                /\ tPc' = pc
           ELSE /\ tDest' = tDest
                /\ tCall' = Returned(tCall, "false")
                /\ tExtras' = left
                /\ tPc' = "done"
    /\ UNCHANGED <<tSrc, tDirs, tInc, tExc, tDel, tDry, tTodo, notTree>>


(***************************************************************************)
(* SyncController.  Every create_runtime call makes a new controller, a    *)
(* new runner and a new stop event; the model numbers them 0, 1, ...       *)
(***************************************************************************)
MaxRestarts == 1
\* The runtimes create_runtime makes: the first, and one for each restart
\* call, of which a second may be in flight when the last allowed one begins.
RuntimeIds == 0..(MaxRestarts + 1)

\* SyncController.__init__
CtlInit ==
    /\ cPaused = [c \in RuntimeIds |-> FALSE]
    /\ cDry = [c \in RuntimeIds |-> FALSE]
    /\ cRunOnce = [c \in RuntimeIds |-> FALSE]

\* pause(), resume(), set_dry_run(value), request_run_once() on controller c
Pause(c) == cPaused' = [cPaused EXCEPT ![c] = TRUE]
Resume(c) == cPaused' = [cPaused EXCEPT ![c] = FALSE]
SetDryRun(c, value) == cDry' = [cDry EXCEPT ![c] = value]
RequestRunOnce(c) == cRunOnce' = [cRunOnce EXCEPT ![c] = TRUE]

\* consume_run_once(): `if self._run_once.is_set()`, and then, as a second
\* step that takes no lock, `self._run_once.clear()`
RunOnceIsSet(c) == cRunOnce[c]
RunOnceKeep(c) == cRunOnce' = cRunOnce

RunOnceClear(c) == cRunOnce' = [cRunOnce EXCEPT ![c] = FALSE]

(***************************************************************************)
(* SpecCtl: threads calling request_run_once and consume_run_once on one   *)
(* controller.                                                             *)
(***************************************************************************)
MaxRequests == 3
MaxConsumes == 4
Callers == {"t1", "t2"}

CallerInit ==
    /\ kPc = [t \in Callers |-> "idle"]
    /\ kReq = 0
    /\ kTrue = 0
    /\ kFalse = 0

\* A caller runs request_run_once().
CallRequest(t) ==
    /\ kPc[t] = "idle"
    /\ kReq < MaxRequests
    /\ RequestRunOnce(0)
    /\ kReq' = kReq + 1
    /\ UNCHANGED <<cPaused, cDry, kPc, kTrue, kFalse, notCtl>>

\* A caller enters consume_run_once() and tests the event.
CallConsumeTest(t) ==
    /\ kPc[t] = "idle"
    /\ kTrue + kFalse + Cardinality({u \in Callers : kPc[u] = "checked"}) < MaxConsumes
    /\ IF RunOnceIsSet(0)
       THEN kPc' = [kPc EXCEPT ![t] = "checked"] /\ UNCHANGED kFalse
       ELSE kFalse' = kFalse + 1 /\ UNCHANGED kPc
    /\ UNCHANGED <<ctlVars, kReq, kTrue, notCtl>>

\* The caller clears the event and returns True.
CallConsumeClear(t) ==
    /\ kPc[t] = "checked"
    /\ RunOnceClear(0)
    /\ kPc' = [kPc EXCEPT ![t] = "idle"]
    /\ kTrue' = kTrue + 1
    /\ UNCHANGED <<cPaused, cDry, kReq, kFalse, notCtl>>

(***************************************************************************)
(* SyncRunner.run_forever in its thread (WebRuntime._start_thread).        *)
(***************************************************************************)
NoThread == 0 - 1
Free == "free"

\* settings.interval_seconds, and the `1` of the short sleeps
IntervalSeconds == 2
ShortSeconds == 1

RunnerPcs == {"new", "startup", "top", "consume", "clear", "ispaused",
              "cycle", "sleep", "dead"}

RunnerInit ==
    /\ rPc = [r \in RuntimeIds |-> "new"]
    /\ rStop = [r \in RuntimeIds |-> FALSE]
    /\ rSleep = [r \in RuntimeIds |-> 0]
    /\ rForced = [r \in RuntimeIds |-> FALSE]

\* _sleep_with_stop(seconds): remaining = max(0, int(seconds * 2))
SleepTicks(seconds) == IF seconds * 2 > 0 THEN seconds * 2 ELSE 0

GoTo(r, pc) == rPc' = [rPc EXCEPT ![r] = pc]

\* time.sleep(settings.startup_delay_seconds) is over: run_forever is entered.
RunnerStarted(r) ==
    /\ rPc[r] = "startup"
    /\ GoTo(r, "top")
    /\ UNCHANGED <<rStop, rSleep, rForced, ctlVars, webVars, notWeb>>

\* while not self._stop_event.is_set():
RunnerTop(r) ==
    /\ rPc[r] = "top"
    /\ GoTo(r, IF rStop[r] THEN "dead" ELSE "consume")
    /\ UNCHANGED <<rStop, rSleep, rForced, ctlVars, webVars, notWeb>>

\* if self.controller.consume_run_once(): the test of the event
RunnerConsumeTest(r) ==
    /\ rPc[r] = "consume"
    /\ GoTo(r, IF RunOnceIsSet(r) THEN "clear" ELSE "ispaused")
    /\ UNCHANGED <<rStop, rSleep, rForced, ctlVars, webVars, notWeb>>

\* consume_run_once() clears the event and returns True: _run_cycle is called
RunnerConsumeClear(r) ==
    /\ rPc[r] = "clear"
    /\ RunOnceClear(r)
    /\ GoTo(r, "cycle")
    /\ rForced' = [rForced EXCEPT ![r] = TRUE]
    /\ UNCHANGED <<rStop, rSleep, cPaused, cDry, webVars, notWeb>>

RunnerPausedTestIgnored(r) ==
    /\ rPc[r] = "ispaused"
    /\ GoTo(r, "cycle")
    /\ rForced' = [rForced EXCEPT ![r] = FALSE]
    /\ UNCHANGED <<rStop, rSleep, ctlVars, webVars, notWeb>>

\* if self.controller.is_paused(): sleep 1 and continue; else _run_cycle
RunnerPausedTest(r) ==
    /\ rPc[r] = "ispaused"
    /\ IF cPaused[r]
       THEN /\ GoTo(r, "sleep")
            /\ rSleep' = [rSleep EXCEPT ![r] = SleepTicks(ShortSeconds)]
       ELSE /\ GoTo(r, "cycle")
            /\ UNCHANGED rSleep
    /\ rForced' = [rForced EXCEPT ![r] = FALSE]
    /\ UNCHANGED <<rStop, ctlVars, webVars, notWeb>>

\* _run_cycle returns; the sleep that follows it is chosen
RunnerCycleEnd(r) ==
    /\ rPc[r] = "cycle"
    /\ GoTo(r, "sleep")
    /\ rSleep' = [rSleep EXCEPT ![r] =
                    IF rForced[r] /\ cPaused[r] THEN SleepTicks(ShortSeconds)
                    ELSE SleepTicks(IntervalSeconds)]
    /\ rForced' = [rForced EXCEPT ![r] = FALSE]
    /\ UNCHANGED <<rStop, ctlVars, webVars, notWeb>>

RunnerSleepNeverCounts(r) ==
    /\ rPc[r] = "sleep"
    /\ IF rSleep[r] > 0 /\ ~rStop[r]
       THEN UNCHANGED <<rSleep, rPc>>
       ELSE GoTo(r, "top") /\ rSleep' = [rSleep EXCEPT ![r] = 0]
    /\ UNCHANGED <<rStop, rForced, ctlVars, webVars, notWeb>>

RunnerSleepIgnoresStop(r) ==
    /\ rPc[r] = "sleep"
    /\ IF rSleep[r] > 0
       THEN rSleep' = [rSleep EXCEPT ![r] = @ - 1] /\ UNCHANGED rPc
       ELSE GoTo(r, "top") /\ rSleep' = [rSleep EXCEPT ![r] = 0]
    /\ UNCHANGED <<rStop, rForced, ctlVars, webVars, notWeb>>

\* _sleep_with_stop: one test of `remaining > 0 and not stop`, and the
\* half second slept when it holds
RunnerSleep(r) ==
    /\ rPc[r] = "sleep"
    /\ IF rSleep[r] > 0 /\ ~rStop[r]
       THEN rSleep' = [rSleep EXCEPT ![r] = @ - 1] /\ UNCHANGED rPc
       ELSE GoTo(r, "top") /\ rSleep' = [rSleep EXCEPT ![r] = 0]
    /\ UNCHANGED <<rStop, rForced, ctlVars, webVars, notWeb>>

(***************************************************************************)
(* Settings, as _settings_from_config produces them from a configuration   *)
(* document.                                                               *)
(***************************************************************************)
ConfigError == [error |-> TRUE]

\* _require_positive(value, name) raises unless value > 0
RequirePositive(value) == value > 0

ServerList == <<"s1", "s2">>
Servers == Range(ServerList)

PatStarJson == <<"*", ".json">>
PatBJson == <<"b", ".json">>
PatStarXJson == <<"*", "x", ".json">>

\* The ServerConfig entries built from the document's Servers list: the
\* first server is enabled and takes its ConfigPattern from the document,
\* the second has the default pattern and the document's Enabled value.
ServersFromConfig(cfg) ==
    [name \in Servers |->
        IF name = "s1"
        THEN [enabled |-> TRUE, config_pattern |-> cfg.ConfigPattern,
              exclude_patterns |-> <<PatStarXJson>>]
        ELSE [enabled |-> cfg.SecondEnabled, config_pattern |-> <<PatStarJson>>,
              exclude_patterns |-> <<>>]]

\* _settings_from_config(cfg): the numeric fields, the dry-run default and
\* the servers.  IntervalSeconds, GitRetryCount, GitTimeoutSeconds and
\* StartupDelaySeconds go through _require_positive; GitRetryDelaySeconds is
\* only converted with int().
SettingsFromConfig(cfg) ==
    IF ~RequirePositive(cfg.IntervalSeconds) THEN ConfigError
    ELSE IF ~RequirePositive(cfg.GitRetryCount) THEN ConfigError
    ELSE IF ~RequirePositive(cfg.GitTimeoutSeconds) THEN ConfigError
    ELSE IF ~RequirePositive(cfg.StartupDelaySeconds) THEN ConfigError
    ELSE [error |-> FALSE,
          interval_seconds |-> cfg.IntervalSeconds,
          git_retry_count |-> cfg.GitRetryCount,
          git_retry_delay_seconds |-> cfg.GitRetryDelaySeconds,
          git_timeout_seconds |-> cfg.GitTimeoutSeconds,
          startup_delay_seconds |-> cfg.StartupDelaySeconds,
          dry_run |-> cfg.DryRun,
          servers |-> ServersFromConfig(cfg)]

MaxRetryCount == 2
MaxRetryDelay == 1

\* The configuration documents the model draws from.
ConfigDocs ==
    [IntervalSeconds : 0..1,
     GitRetryCount : 0..MaxRetryCount,
     GitTimeoutSeconds : 0..1,
     StartupDelaySeconds : 0..1,
     GitRetryDelaySeconds : (0 - 1)..MaxRetryDelay,
     DryRun : BOOLEAN,
     ConfigPattern : {<<PatStarJson>>, <<PatBJson>>},
     SecondEnabled : BOOLEAN]

\* The Settings values a configuration document can give the program.
ValidSettings == {SettingsFromConfig(cfg) : cfg \in ConfigDocs} \ {ConfigError}

(***************************************************************************)
(* WebRuntime: the dashboard's handlers and restart.                       *)
(***************************************************************************)
Restarts == {"r1"}
\* The threads that may run WebRuntime.restart (two save_config requests).
Restarters == {"r1", "r2"}
Handlers == {"h1"}
Requests == {"pause", "resume", "dry_on", "dry_off", "run_once"}
\* The requests whose effect restart carries to the new controller.
FlagRequests == {"pause", "resume", "dry_on", "dry_off"}

\* The configuration document the program was started with.
StartDoc ==
    [IntervalSeconds |-> 1, GitRetryCount |-> 1, GitTimeoutSeconds |-> 1,
     StartupDelaySeconds |-> 1, GitRetryDelaySeconds |-> 0, DryRun |-> FALSE,
     ConfigPattern |-> <<PatStarJson>>, SecondEnabled |-> FALSE]

\* WebRuntime.__init__ and start()
WebInit ==
    /\ wCur = 0
    /\ wThread = 0
    /\ wNext = 1
    /\ wLock = Free
    /\ rsPc = [r \in Restarters |-> "idle"]
    /\ rsPrev = [r \in Restarters |-> NoThread]
    /\ rsPaused = [r \in Restarters |-> FALSE]
    /\ rsDry = [r \in Restarters |-> FALSE]
    /\ rsNew = [r \in Restarters |-> SettingsFromConfig(StartDoc)]
    /\ wSettings = SettingsFromConfig(StartDoc)
    /\ cfgFile = StartDoc
    /\ resp = [r \in Restarters |-> "none"]
    /\ hPc = [h \in Handlers |-> "idle"]
    /\ hCtl = [h \in Handlers |-> 0]
    /\ hOp = [h \in Handlers |-> "pause"]
    /\ intent = [paused |-> FALSE, dry |-> FALSE]

\* A handler runs runtime.get_controller() (under WebRuntime._lock).
HandlerGet(h, op) ==
    /\ hPc[h] = "idle"
    /\ wLock = Free
    /\ hPc' = [hPc EXCEPT ![h] = "got"]
    /\ hCtl' = [hCtl EXCEPT ![h] = wCur]
    /\ hOp' = [hOp EXCEPT ![h] = op]
    /\ UNCHANGED <<wCur, wThread, wNext, wLock, rsPc, rsPrev, rsPaused, rsDry,
                   rsNew, wSettings, cfgFile, resp,
                   intent, ctlVars, runnerVars, notWeb>>

\* The handler calls the controller it got: pause(), resume(),
\* set_dry_run(enabled) or request_run_once().
HandlerApply(h) ==
    /\ hPc[h] = "got"
    /\ hPc' = [hPc EXCEPT ![h] = "idle"]
    /\ CASE hOp[h] = "pause" ->
              /\ Pause(hCtl[h])
              /\ intent' = [intent EXCEPT !.paused = TRUE]
              /\ UNCHANGED <<cDry, cRunOnce>>
         [] hOp[h] = "resume" ->
              /\ Resume(hCtl[h])
              /\ intent' = [intent EXCEPT !.paused = FALSE]
              /\ UNCHANGED <<cDry, cRunOnce>>
         [] hOp[h] = "dry_on" ->
              /\ SetDryRun(hCtl[h], TRUE)
              /\ intent' = [intent EXCEPT !.dry = TRUE]
              /\ UNCHANGED <<cPaused, cRunOnce>>
         [] hOp[h] = "dry_off" ->
              /\ SetDryRun(hCtl[h], FALSE)
              /\ intent' = [intent EXCEPT !.dry = FALSE]
              /\ UNCHANGED <<cPaused, cRunOnce>>
         [] hOp[h] = "run_once" ->
              /\ RequestRunOnce(hCtl[h])
              /\ UNCHANGED <<cPaused, cDry, intent>>
    /\ hCtl' = [hCtl EXCEPT ![h] = 0]
    /\ hOp' = [hOp EXCEPT ![h] = "pause"]
    /\ UNCHANGED <<wCur, wThread, wNext, wLock, rsPc, rsPrev, rsPaused, rsDry,
                   rsNew, wSettings, cfgFile, resp,
                   runnerVars, notWeb>>

\* restart, first `with self._lock`: the previous controller's flags are
\* read and the previous runner is told to stop.
RestartFirstSection(x) ==
    /\ rsPc[x] = "idle"
    /\ wLock = Free
    /\ wNext <= MaxRestarts
    /\ rsPrev' = [rsPrev EXCEPT ![x] = wThread]
    /\ rsPaused' = [rsPaused EXCEPT ![x] = cPaused[wCur]]
    /\ rsDry' = [rsDry EXCEPT ![x] = cDry[wCur]]
    /\ rStop' = [rStop EXCEPT ![wCur] = TRUE]
    /\ rsPc' = [rsPc EXCEPT ![x] = "join"]
    /\ UNCHANGED <<wCur, wThread, wNext, wLock, wSettings, hPc, hCtl, hOp, intent,
                   ctlVars, rPc, rSleep, rForced, notWeb>>

\* restart(new_settings) called with the settings in rsNew[x].
RestartBegin(x) ==
    /\ RestartFirstSection(x)
    /\ UNCHANGED <<rsNew, cfgFile, resp>>

\* What a thread may be blocked in for longer than join's 5 seconds: the
\* startup delay and the git calls and file copies of a cycle.  A thread in
\* _sleep_with_stop sees the stop event within half a second.
OutlastsJoin(pc) == pc \in {"startup", "cycle"}

\* prev_thread.join(timeout=5) returns: the thread has ended, or the 5
\* seconds have passed.
JoinReturns(thread) ==
    \/ thread = NoThread
    \/ rPc[thread] = "dead"
    \/ OutlastsJoin(rPc[thread])

RestartJoin(x) ==
    /\ rsPc[x] = "join"
    /\ JoinReturns(rsPrev[x])
    /\ rsPc' = [rsPc EXCEPT ![x] = "install"]
    /\ UNCHANGED <<wCur, wThread, wNext, wLock, rsPrev, rsPaused, rsDry,
                   rsNew, wSettings, cfgFile, resp,
                   hPc, hCtl, hOp, intent, ctlVars, runnerVars, notWeb>>

RestartInstallFreshFlags(x) ==
    /\ rsPc[x] = "install"
    /\ wLock = Free
    /\ wCur' = wNext
    /\ wThread' = wNext
    /\ wNext' = wNext + 1
    /\ cPaused' = [cPaused EXCEPT ![wNext] = rsPaused[x]]
    /\ cDry' = [cDry EXCEPT ![wNext] = FALSE]
    /\ rPc' = [rPc EXCEPT ![wNext] = "startup"]
    /\ rsPc' = [rsPc EXCEPT ![x] = "idle"]
    /\ rsPrev' = [rsPrev EXCEPT ![x] = NoThread]
    /\ rsPaused' = [rsPaused EXCEPT ![x] = FALSE]
    /\ rsDry' = [rsDry EXCEPT ![x] = FALSE]
    /\ wSettings' = rsNew[x]
    /\ resp' = [resp EXCEPT ![x] = "ok"]
    /\ UNCHANGED <<wLock, rsNew, cfgFile, hPc, hCtl, hOp, intent,
                   cRunOnce, rStop, rSleep, rForced, notWeb>>

\* restart, second `with self._lock`: the new settings kept, create_runtime,
\* the flags carried to the new controller, the new thread started; restart
\* returns and save_config answers {"ok": true}.
RestartInstall(x) ==
    /\ rsPc[x] = "install"
    /\ wLock = Free
    /\ wCur' = wNext
    /\ wThread' = wNext
    /\ wNext' = wNext + 1
    /\ cPaused' = [cPaused EXCEPT ![wNext] = rsPaused[x]]
    /\ cDry' = [cDry EXCEPT ![wNext] = rsDry[x]]
    /\ rPc' = [rPc EXCEPT ![wNext] = "startup"]
    /\ rsPc' = [rsPc EXCEPT ![x] = "idle"]
    /\ rsPrev' = [rsPrev EXCEPT ![x] = NoThread]
    /\ rsPaused' = [rsPaused EXCEPT ![x] = FALSE]
    /\ rsDry' = [rsDry EXCEPT ![x] = FALSE]
    /\ wSettings' = rsNew[x]
    /\ resp' = [resp EXCEPT ![x] = "ok"]
    /\ UNCHANGED <<wLock, rsNew, cfgFile, hPc, hCtl, hOp, intent,
                   cRunOnce, rStop, rSleep, rForced, notWeb>>

(***************************************************************************)
(* save_config: POST /api/config/save.                                     *)
(***************************************************************************)
\* The documents the dashboard posts: some break a numeric bound, the
\* others differ in DryRun.
SaveDocs ==
    {doc \in ConfigDocs :
        /\ doc.GitRetryCount <= 1
        /\ doc.GitRetryDelaySeconds = 0
        /\ doc.ConfigPattern = <<PatStarJson>>
        /\ ~doc.SecondEnabled}

\* validate_config_dict(cfg): the list of errors is not empty
ValidationFails(doc) == SettingsFromConfig(doc) = ConfigError

SaveConfigWritesFirst(x, doc) ==
    IF ValidationFails(doc)
    THEN /\ rsPc[x] = "idle"
         /\ cfgFile' = doc
         /\ resp' = [resp EXCEPT ![x] = "errors"]
         /\ UNCHANGED <<wCur, wThread, wNext, wLock, rsPc, rsPrev, rsPaused, rsDry,
                        rsNew, wSettings, hPc, hCtl, hOp, intent,
                        ctlVars, runnerVars, notWeb>>
    ELSE /\ RestartFirstSection(x)
         /\ cfgFile' = doc
         /\ rsNew' = [rsNew EXCEPT ![x] = SettingsFromConfig(doc)]
         /\ resp' = [resp EXCEPT ![x] = "none"]

\* save_config with the posted document: the errors returned with status
\* 400, or the file written and restart called with the new settings, up to
\* the end of restart's first locked section.
SaveConfig(x, doc) ==
    IF ValidationFails(doc)
    THEN /\ rsPc[x] = "idle"
         /\ resp' = [resp EXCEPT ![x] = "errors"]
         /\ UNCHANGED <<wCur, wThread, wNext, wLock, rsPc, rsPrev, rsPaused, rsDry,
                        rsNew, wSettings, cfgFile, hPc, hCtl, hOp, intent,
                        ctlVars, runnerVars, notWeb>>
    ELSE /\ RestartFirstSection(x)
         /\ cfgFile' = doc
         /\ rsNew' = [rsNew EXCEPT ![x] = SettingsFromConfig(doc)]
         /\ resp' = [resp EXCEPT ![x] = "none"]

(***************************************************************************)
(* The servers' clones and the commits of the remote repository.           *)
(***************************************************************************)
ServerConfig(name) == settings.servers[name]

\* What `git ls-tree -r --name-only <ref> config` lists at each commit, in
\* its order, and whether the content `git show` gives is a JSON text.
FileAJson == <<"config", "/", "a", ".json">>
FileBJson == <<"config", "/", "b", ".json">>
FileXJson == <<"config", "/", "x", ".json">>
Commits == {"c1", "c2", "c3"}
NoCommit == "none"
LsTree(commit) ==
    CASE commit = "c1" -> <<[path |-> FileAJson, content |-> "json"]>>
      [] commit = "c2" -> <<[path |-> FileAJson, content |-> "json"],
                            [path |-> FileBJson, content |-> "not json"]>>
      [] commit = "c3" -> <<[path |-> FileAJson, content |-> "json"],
                            [path |-> FileXJson, content |-> "not json"]>>

\* json.loads(content) does not raise
JsonLoads(content) == content = "json"

\* The files _validate_json_from_ref keeps from the listing (lines 613-621).
ValidateSelects(server, rel) ==
    /\ ~ \E ex \in Range(ServerConfig(server).exclude_patterns) : Fnmatch(rel, ex)
    /\ \E pat \in Range(ServerConfig(server).config_pattern) : Fnmatch(rel, pat)

SelectedFiles(server, commit) ==
    SelectSeq(LsTree(commit), LAMBDA f : ValidateSelects(server, f.path))

\* The files of the commit's config directory that _sync_tree copies to the
\* config target: _collect_files matches the patterns against the path
\* relative to that directory.
ConfigRel(path) == SubSeq(path, 3, Len(path))

CopySelects(server, path) ==
    /\ \E pat \in Range(ServerConfig(server).config_pattern) :
            RglobMatch(ConfigRel(path), pat)
    /\ ~ \E ex \in Range(ServerConfig(server).exclude_patterns) :
            Fnmatch(ConfigRel(path), ex)

\* The loop `for file in files` of _validate_json_from_ref: showFails is the
\* set of paths whose `git show` exits non-zero.  Gives what the function
\* returns and the files parsed before it returned.
RECURSIVE ValidateFiles(_, _, _)
ValidateFiles(files, showFails, parsed) ==
    IF files = <<>> THEN [ok |-> TRUE, parsed |-> parsed]
    ELSE IF Head(files).path \in showFails THEN [ok |-> FALSE, parsed |-> parsed]
    ELSE IF ~JsonLoads(Head(files).content) THEN [ok |-> FALSE, parsed |-> parsed]
    ELSE ValidateFiles(Tail(files), showFails, parsed \cup {Head(files).path})

\* _validate_json_from_ref(settings, server, ref)
ValidateJsonFromRef(server, commit, lsOk, showFails) ==
    IF ~lsOk THEN [ok |-> FALSE, parsed |-> {}]
    ELSE ValidateFiles(SelectedFiles(server, commit), showFails, {})

(***************************************************************************)
(* _run_cycle, one step at a time.  cy.log lists what the current server's *)
(* cycle has done so far, cy.used the dry_run arguments it gave _sync_tree, *)
(* cy.seen the servers the tick has processed and cy.others0 the statuses   *)
(* the other servers had when the current server's cycle began.            *)
(***************************************************************************)
MaxTicks == 2

StatusInit == [last_deploy_time |-> 0, last_commit |-> NoCommit,
               last_error |-> "none", last_run_time |-> 0,
               last_status |-> "UNKNOWN"]

CyIdle == [pc |-> "idle", idx |-> 0, attempt |-> 0, local |-> NoCommit,
           remote |-> NoCommit, dry |-> FALSE, log |-> <<>>, parsed |-> {},
           head0 |-> NoCommit, hist0 |-> 0, used |-> <<>>, seen |-> <<>>,
           others0 |-> <<>>]

\* Settings with one enabled server, and settings with two.
SoloSettings == {st \in ValidSettings : ~st.servers["s2"].enabled}
FleetSettings ==
    {st \in ValidSettings :
        /\ st.servers["s2"].enabled
        /\ ~st.dry_run
        /\ st.servers["s1"].config_pattern = <<PatStarJson>>}

CycleStateInit ==
    /\ repo = [s \in Servers |-> [head |-> "c1", origin |-> "c1", upstream |-> "c1"]]
    /\ targets = [s \in Servers |-> [plugins |-> "c1", config |-> "c1"]]
    /\ status = [s \in Servers |-> StatusInit]
    /\ history = <<>>
    /\ clock = 0
    /\ ticks = 0
    /\ cy = CyIdle

FleetInit == settings \in FleetSettings /\ CycleStateInit

CycleInit ==
    /\ settings \in SoloSettings
    /\ repo = [s \in Servers |-> [head |-> "c1", origin |-> "c1", upstream |-> "c1"]]
    /\ targets = [s \in Servers |-> [plugins |-> "c1", config |-> "c1"]]
    /\ status = [s \in Servers |-> StatusInit]
    /\ history = <<>>
    /\ clock = 0
    /\ ticks = 0
    /\ cy = CyIdle

CycleParked ==
    /\ settings = SettingsFromConfig([IntervalSeconds |-> 1, GitRetryCount |-> 1,
                                      GitTimeoutSeconds |-> 1,
                                      StartupDelaySeconds |-> 1,
                                      GitRetryDelaySeconds |-> 0, DryRun |-> FALSE,
                                      ConfigPattern |-> <<PatStarJson>>,
                                      SecondEnabled |-> FALSE])
    /\ repo = [s \in Servers |-> [head |-> "c1", origin |-> "c1", upstream |-> "c1"]]
    /\ targets = [s \in Servers |-> [plugins |-> "c1", config |-> "c1"]]
    /\ status = [s \in Servers |-> StatusInit]
    /\ history = <<>>
    /\ clock = 0
    /\ ticks = 0
    /\ cy = CyIdle

CurServer == ServerList[cy.idx]
InCycle(pc) == cy.pc = pc /\ cy.idx \in 1..Len(ServerList)

UpdateServerStatusAnyKey(st, name, fields) ==
    IF name \notin DOMAIN st THEN st
    ELSE [st EXCEPT ![name] =
            [k \in DOMAIN @ \cup DOMAIN fields |->
                IF k \in DOMAIN fields THEN fields[k] ELSE @[k]]]

\* SyncState.update_server_status(name, **kwargs): fields is a function from
\* field names to values
UpdateServerStatus(st, name, fields) ==
    IF name \notin DOMAIN st THEN st
    ELSE [st EXCEPT ![name] =
            [k \in DOMAIN @ |-> IF k \in DOMAIN fields THEN fields[k] ELSE @[k]]]

AddHistoryEvictNewest(h, record) ==
    IF Len(h) >= 200 THEN h ELSE Append(h, record)

AddHistoryPrepend(h, record) ==
    IF Len(h) >= 200 THEN <<record>> \o SubSeq(h, 1, 199) ELSE <<record>> \o h

\* SyncState.add_history(record)
MaxHistory == 200
AddHistory(h, record) ==
    LET appended == Append(h, record)
    IN  IF Len(appended) > MaxHistory
        THEN SubSeq(appended, Len(appended) - MaxHistory + 1, Len(appended))
        ELSE appended

Logged(event) == [cy EXCEPT !.log = Append(@, event)]

\* state.update_server_status(server.name, last_status="ERROR"); continue
FailServer(event) ==
    /\ status' = UpdateServerStatus(status, CurServer, [last_status |-> "ERROR"])
    /\ cy' = [Logged(event) EXCEPT !.pc = "next"]

\* A push to the remote repository moves its branch.  The clone sees the
\* remote only in `git fetch`, so pushes are taken between cycles and while
\* a fetch is being attempted.
Push(s, commit) ==
    /\ ticks < MaxTicks \/ cy.pc = "fetch"
    /\ cy.pc \in {"idle", "fetch"}
    /\ cy.pc = "fetch" => s = CurServer
    /\ repo[s].upstream # commit
    /\ repo' = [repo EXCEPT ![s].upstream = commit]
    /\ UNCHANGED <<settings, targets, status, history, clock, ticks, cy,
                   ctlVars, notCycle>>

\* The dashboard sets the controller's dry-run override.
CycleSetDryRun(value) ==
    /\ cDry[0] # value
    /\ SetDryRun(0, value)
    /\ UNCHANGED <<cPaused, cRunOnce, cycleVars, notCycle>>

\* run_forever calls _run_cycle.
RunCycle ==
    /\ cy.pc = "idle"
    /\ ticks < MaxTicks
    /\ ticks' = ticks + 1
    /\ cy' = [CyIdle EXCEPT !.pc = "next", !.idx = 0]
    /\ UNCHANGED <<settings, repo, targets, status, history, clock,
                   ctlVars, notCycle>>

\* `for server in settings.servers`: the next server, up to the fetch
\* (lines 784-811); pathsOk is what _ensure_paths returns.
ServerBegin(pathsOk) ==
    /\ cy.pc = "next"
    /\ LET idx == cy.idx + 1
           name == ServerList[idx]
           fresh == [CyIdle EXCEPT !.idx = idx, !.head0 = repo[name].head,
                                   !.hist0 = Len(history),
                                   !.seen = Append(cy.seen, name),
                                   !.others0 = [s \in Servers \ {name} |-> status[s]]]
       IN  IF idx > Len(ServerList)
           THEN cy' = [CyIdle EXCEPT !.seen = cy.seen] /\ UNCHANGED <<status, clock>>
           ELSE IF ~ServerConfig(name).enabled
           THEN /\ cy' = [CyIdle EXCEPT !.idx = idx, !.pc = "next", !.seen = cy.seen]
                /\ UNCHANGED <<status, clock>>
           ELSE /\ clock' = clock + 1
                /\ IF pathsOk
                   THEN /\ status' = UpdateServerStatus(status, name,
                                        [last_run_time |-> clock'])
                        /\ cy' = [fresh EXCEPT !.pc = "fetch", !.attempt = 1]
                   ELSE /\ status' = UpdateServerStatus(status, name,
                                        [last_run_time |-> clock',
                                         last_error |-> "missing paths",
                                         last_status |-> "ERROR"])
                        /\ cy' = [fresh EXCEPT !.pc = "next",
                                               !.log = <<"missing paths">>]
    /\ UNCHANGED <<settings, repo, targets, history, ticks, ctlVars, notCycle>>

\* time.sleep(seconds) raises ValueError for a negative length.
SleepRaises(seconds) == seconds < 0

\* One attempt of _git_fetch_with_retries (lines 548-563); fetchOk is whether
\* `git fetch` exits 0.
FetchAttempt(fetchOk) ==
    /\ InCycle("fetch")
    /\ IF fetchOk
       THEN /\ repo' = [repo EXCEPT ![CurServer].origin = repo[CurServer].upstream]
            /\ cy' = [Logged("fetch ok") EXCEPT !.pc = "resolve"]
            /\ UNCHANGED status
       ELSE IF SleepRaises(settings.git_retry_delay_seconds)
       THEN /\ cy' = [Logged("fetch failed") EXCEPT !.pc = "crashed"]
            /\ UNCHANGED <<repo, status>>
       ELSE IF cy.attempt < settings.git_retry_count
       THEN /\ cy' = [cy EXCEPT !.log = @ \o <<"fetch failed", "sleep">>,
                                !.attempt = @ + 1]
            /\ UNCHANGED <<repo, status>>
       ELSE /\ status' = UpdateServerStatus(status, CurServer,
                                            [last_status |-> "ERROR"])
            /\ cy' = [cy EXCEPT !.log = @ \o <<"fetch failed", "sleep">>,
                                !.pc = "next"]
            /\ UNCHANGED repo
    /\ UNCHANGED <<settings, targets, history, clock, ticks, ctlVars, notCycle>>

\* local = rev-parse HEAD, remote = rev-parse origin/<branch> (lines 817-825)
Resolve(localOk, remoteOk) ==
    /\ InCycle("resolve")
    /\ IF localOk /\ remoteOk
       THEN /\ cy' = [Logged("resolve") EXCEPT !.pc = "validate",
                            !.local = repo[CurServer].head,
                            !.remote = repo[CurServer].origin]
            /\ UNCHANGED status
       ELSE FailServer("resolve failed")
    /\ UNCHANGED <<settings, repo, targets, history, clock, ticks, ctlVars, notCycle>>

\* _validate_json_from_ref(settings, server, f"origin/{branch}") (lines 827-829)
Validate(lsOk, showFails) ==
    /\ InCycle("validate")
    /\ LET res == ValidateJsonFromRef(CurServer, repo[CurServer].origin, lsOk, showFails)
       IN  IF res.ok
           THEN /\ cy' = [Logged("validate") EXCEPT !.pc = "reset", !.parsed = res.parsed]
                /\ UNCHANGED status
           ELSE /\ status' = UpdateServerStatus(status, CurServer,
                                                [last_status |-> "ERROR"])
                /\ cy' = [Logged("validate failed") EXCEPT !.pc = "next",
                                                           !.parsed = res.parsed]
    /\ UNCHANGED <<settings, repo, targets, history, clock, ticks, ctlVars, notCycle>>

\* effective_dry_run = settings.dry_run or controller.get_dry_run()
EffectiveDryRun == settings.dry_run \/ cDry[0]

\* _git_reset_hard(settings, server, remote), then the effective dry-run is
\* read (lines 831-836)
Reset(resetOk) ==
    /\ InCycle("reset")
    /\ IF resetOk
       THEN /\ repo' = [repo EXCEPT ![CurServer].head = cy.remote]
            /\ cy' = [Logged("reset") EXCEPT !.pc = "plugins", !.dry = EffectiveDryRun]
            /\ UNCHANGED status
       ELSE FailServer("reset failed") /\ UNCHANGED repo
    /\ UNCHANGED <<settings, targets, history, clock, ticks, ctlVars, notCycle>>

ApplyDryRunReread == EffectiveDryRun

\* The effective_dry_run argument the cycle gives _sync_tree: the local
\* variable assigned after the reset.
ApplyDryRun == cy.dry

SyncPluginsThenConfigAnyway(syncOk) ==
    /\ InCycle("plugins")
    /\ IF syncOk
       THEN /\ targets' = [targets EXCEPT ![CurServer].plugins =
                              IF ApplyDryRun THEN @ ELSE repo[CurServer].head]
            /\ cy' = [Logged("plugins") EXCEPT !.pc = "config",
                                                !.used = Append(@, ApplyDryRun)]
            /\ UNCHANGED status
       ELSE /\ status' = UpdateServerStatus(status, CurServer,
                                            [last_status |-> "ERROR"])
            /\ cy' = [Logged("plugins failed") EXCEPT !.pc = "config",
                                                       !.used = Append(@, ApplyDryRun)]
            /\ UNCHANGED targets
    /\ UNCHANGED <<settings, repo, history, clock, ticks, ctlVars, notCycle>>

\* _sync_tree of the plugins tree (lines 838-849); syncOk is what it returns
SyncPlugins(syncOk) ==
    /\ InCycle("plugins")
    /\ IF syncOk
       THEN /\ targets' = [targets EXCEPT ![CurServer].plugins =
                              IF ApplyDryRun THEN @ ELSE repo[CurServer].head]
            /\ cy' = [Logged("plugins") EXCEPT !.pc = "config",
                                                !.used = Append(@, ApplyDryRun)]
            /\ UNCHANGED status
       ELSE /\ status' = UpdateServerStatus(status, CurServer,
                                            [last_status |-> "ERROR"])
            /\ cy' = [Logged("plugins failed") EXCEPT !.pc = "next",
                                                       !.used = Append(@, ApplyDryRun)]
            /\ UNCHANGED targets
    /\ UNCHANGED <<settings, repo, history, clock, ticks, ctlVars, notCycle>>

\* _sync_tree of the config tree (lines 851-862)
SyncConfig(syncOk) ==
    /\ InCycle("config")
    /\ IF syncOk
       THEN /\ targets' = [targets EXCEPT ![CurServer].config =
                              IF ApplyDryRun THEN @ ELSE repo[CurServer].head]
            /\ cy' = [Logged("config") EXCEPT !.pc = "record",
                                               !.used = Append(@, ApplyDryRun)]
            /\ UNCHANGED status
       ELSE /\ status' = UpdateServerStatus(status, CurServer,
                                            [last_status |-> "ERROR"])
            /\ cy' = [Logged("config failed") EXCEPT !.pc = "next",
                                                      !.used = Append(@, ApplyDryRun)]
            /\ UNCHANGED targets
    /\ UNCHANGED <<settings, repo, history, clock, ticks, ctlVars, notCycle>>

DeployNeededAlways(local, remote) == TRUE

\* deploy_needed = local != remote
DeployNeeded(local, remote) == local # remote

\* The status update and the history record (lines 864-886)
Record ==
    /\ InCycle("record")
    /\ LET done == UpdateServerStatus(status, CurServer,
                      [last_commit |-> cy.remote, last_error |-> "none",
                       last_status |-> "OK"])
       IN  IF DeployNeeded(cy.local, cy.remote)
           THEN /\ status' = UpdateServerStatus(done, CurServer,
                                                [last_deploy_time |-> clock])
                /\ history' = AddHistory(history,
                                 [server |-> CurServer, commit |-> cy.remote,
                                  timestamp |-> clock, status |-> "OK"])
           ELSE /\ status' = done
                /\ UNCHANGED history
    /\ cy' = [Logged("record") EXCEPT !.pc = "next"]
    /\ UNCHANGED <<settings, repo, targets, clock, ticks, ctlVars, notCycle>>

CycleNext ==
    \/ \E s \in Servers, c \in Commits : Push(s, c)
    \/ \E value \in BOOLEAN : CycleSetDryRun(value)
    \/ RunCycle
    \/ \E pathsOk \in BOOLEAN : ServerBegin(pathsOk)
    \/ \E fetchOk \in BOOLEAN : FetchAttempt(fetchOk)
    \/ \E localOk, remoteOk \in BOOLEAN : Resolve(localOk, remoteOk)
    \/ \E lsOk \in BOOLEAN, showFails \in SUBSET {FileAJson, FileBJson, FileXJson} :
          Validate(lsOk, showFails)
    \/ \E resetOk \in BOOLEAN : Reset(resetOk)
    \/ \E syncOk \in BOOLEAN : SyncPlugins(syncOk)
    \/ \E syncOk \in BOOLEAN : SyncConfig(syncOk)
    \/ Record

InitCycle == TreeParked /\ CtlInit /\ CallerInit /\ WebInit /\ RunnerInit /\ CycleInit /\ StateParked /\ LoopParked

SpecCycle == InitCycle /\ [][CycleNext]_vars

InitFleet == TreeParked /\ CtlInit /\ CallerInit /\ WebInit /\ RunnerInit /\ FleetInit /\ StateParked /\ LoopParked

SpecFleet == InitFleet /\ [][CycleNext]_vars

\* The state one _run_cycle call leaves when it found the first server's
\* clone at the remote's commit and both syncs succeeded: lastCommit holds
\* that commit and nothing was recorded.  `ticks` counts the calls after it.
AfterFirstCycle ==
    /\ settings = SettingsFromConfig([IntervalSeconds |-> 1, GitRetryCount |-> 1,
                                      GitTimeoutSeconds |-> 1,
                                      StartupDelaySeconds |-> 1,
                                      GitRetryDelaySeconds |-> 0, DryRun |-> FALSE,
                                      ConfigPattern |-> <<PatStarJson>>,
                                      SecondEnabled |-> FALSE])
    /\ repo = [s \in Servers |-> [head |-> "c1", origin |-> "c1", upstream |-> "c1"]]
    /\ targets = [s \in Servers |-> [plugins |-> "c1", config |-> "c1"]]
    /\ status = [s \in Servers |->
                    IF s = "s1"
                    THEN [StatusInit EXCEPT !.last_commit = "c1",
                                            !.last_status = "OK",
                                            !.last_run_time = 1]
                    ELSE StatusInit]
    /\ history = <<>>
    /\ clock = 1
    /\ cy = [CyIdle EXCEPT !.seen = <<"s1">>]

RetryInit == AfterFirstCycle /\ ticks = 0

InitRetry == TreeParked /\ CtlInit /\ CallerInit /\ WebInit /\ RunnerInit /\ RetryInit /\ StateParked /\ LoopParked

SpecRetry == InitRetry /\ [][CycleNext]_vars

(***************************************************************************)
(* SyncState used directly: add_history, update_server_status, snapshot.   *)
(***************************************************************************)
\* The DeploymentRecord of the n-th add_history call.
RecordOf(n) == [server |-> "s1", commit |-> "c1", timestamp |-> n, status |-> "OK"]

MaxAppends == 205

\* state.add_history(DeploymentRecord(...))
HistoryAppend ==
    /\ appends < MaxAppends
    /\ appends' = appends + 1
    /\ history' = AddHistory(history, RecordOf(appends + 1))
    /\ UNCHANGED <<status, recs, snap, upd, notState>>

\* SpecHistory: add_history called again and again on a fresh SyncState.
InitHistory ==
    /\ TreeParked /\ CtlInit /\ CallerInit /\ WebInit /\ RunnerInit /\ CycleParked
    /\ StateParked /\ LoopParked

SpecHistory == InitHistory /\ [][HistoryAppend]_vars

(***************************************************************************)
(* One scheduler loop and the calls made on its controller and runner      *)
(* while it runs.  lc notes the last call and what the loop did then.      *)
(***************************************************************************)
Noted(op) == [op |-> op, pc |-> rPc[0], paused |-> cPaused[0], left |-> rSleep[0]]

\* controller.pause()
LoopPause ==
    /\ Pause(0)
    /\ lc' = Noted("pause")
    /\ UNCHANGED <<cDry, cRunOnce, treeVars, callerVars, webVars, runnerVars,
                   cycleVars, stateVars>>

\* controller.resume()
LoopResume ==
    /\ Resume(0)
    /\ lc' = Noted("resume")
    /\ UNCHANGED <<cDry, cRunOnce, treeVars, callerVars, webVars, runnerVars,
                   cycleVars, stateVars>>

\* controller.request_run_once()
LoopRequestRunOnce ==
    /\ RequestRunOnce(0)
    /\ lc' = Noted("run_once")
    /\ UNCHANGED <<cPaused, cDry, treeVars, callerVars, webVars, runnerVars,
                   cycleVars, stateVars>>

\* runner.stop(): self._stop_event.set()
LoopStop ==
    /\ ~rStop[0]
    /\ rStop' = [rStop EXCEPT ![0] = TRUE]
    /\ lc' = Noted("stop")
    /\ UNCHANGED <<rPc, rSleep, rForced, ctlVars, treeVars, callerVars, webVars,
                   cycleVars, stateVars>>

\* The steps of the loop's thread.
LoopRunner ==
    \/ RunnerStarted(0)
    \/ RunnerTop(0)
    \/ RunnerConsumeTest(0)
    \/ RunnerConsumeClear(0)
    \/ RunnerPausedTest(0)
    \/ RunnerCycleEnd(0)
    \/ RunnerSleep(0)

LoopNext ==
    \/ LoopPause
    \/ LoopResume
    \/ LoopRequestRunOnce
    \/ LoopStop
    \/ RunnerStarted(0)
    \/ RunnerTop(0)
    \/ RunnerConsumeTest(0)
    \/ RunnerConsumeClear(0)
    \/ RunnerPausedTest(0)
    \/ RunnerCycleEnd(0)
    \/ RunnerSleep(0)

\* The runner's thread has been started.
InitLoop ==
    /\ TreeParked /\ CtlInit /\ CallerInit /\ WebInit /\ CycleParked
    /\ StateParked /\ LoopParked
    /\ rPc = [r \in RuntimeIds |-> IF r = 0 THEN "startup" ELSE "new"]
    /\ rStop = [r \in RuntimeIds |-> FALSE]
    /\ rSleep = [r \in RuntimeIds |-> 0]
    /\ rForced = [r \in RuntimeIds |-> FALSE]

SpecLoop == InitLoop /\ [][LoopNext]_vars

\* The loop's thread is scheduled again and again, and _run_cycle returns.
SpecLoopFair == InitLoop /\ [][LoopNext]_vars /\ WF_vars(LoopRunner)

\* In SpecState objects have identity.  A ServerStatus object is named by
\* its server and status[name] is its __dict__; a DeploymentRecord object is
\* named by its index in recs, recs[id] is its __dict__, and history lists
\* the ids of the records SyncState holds.
MaxStateAppends == 2
MaxSnapWrites == 1

\* The keyword arguments of the calls: fields of ServerStatus, and a
\* name ServerStatus does not have.
StatusUpdates ==
    {[last_status |-> "OK"],
     [last_status |-> "ERROR", last_error |-> "missing paths"],
     [no_such_field |-> "x"],
     [last_status |-> "OK", no_such_field |-> "x"]}

\* The names of the calls: the servers of the state, and one it does not have.
UnknownServer == "s9"
UpdateNames == Servers \cup {UnknownServer}

\* state.update_server_status(name, **fields)
StateUpdate(name, fields) ==
    /\ status' = UpdateServerStatus(status, name, fields)
    /\ upd' = [called |-> TRUE, name |-> name, keys |-> DOMAIN fields,
                unknown |-> upd.unknown \/ name \notin DOMAIN status]
    /\ UNCHANGED <<history, appends, recs, snap, notState>>

\* state.add_history(DeploymentRecord(...)) with a record newly made
StateAddHistory ==
    /\ appends < MaxStateAppends
    /\ appends' = appends + 1
    /\ recs' = Append(recs, RecordOf(appends + 1))
    /\ history' = AddHistory(history, Len(recs) + 1)
    /\ UNCHANGED <<status, snap, upd, notState>>

\* What the dicts a snapshot refers to hold now.
ServersView(refs) == [i \in 1..Len(refs) |-> status[refs[i]]]
HistoryView(refs) == [i \in 1..Len(refs) |-> recs[refs[i]]]

\* SyncState.snapshot(): two new lists, of the __dict__ of every ServerStatus
\* in the order of _servers and of the __dict__ of every record of _history.
Snapshot ==
    [taken |-> TRUE, servers |-> ServerList, history |-> history, writes |-> 0]

\* What a reader of the returned value finds in it.
SnapServers == ServersView(snap.servers)
SnapHistory == HistoryView(snap.history)

\* The dashboard calls runtime.snapshot() and keeps the value.
StateSnapshot ==
    /\ snap' = Snapshot
    /\ UNCHANGED <<status, history, appends, recs, upd, notState>>

\* The holder of the returned value assigns to a key of one of its dicts:
\* snapshot["servers"][i]["last_status"] = "edited"
SnapshotWriteServer(i) ==
    /\ snap.taken
    /\ snap.writes < MaxSnapWrites
    /\ i \in 1..Len(snap.servers)
    /\ status' = [status EXCEPT ![snap.servers[i]].last_status = "edited"]
    /\ snap' = [snap EXCEPT !.writes = @ + 1]
    /\ UNCHANGED <<history, appends, recs, upd, notState>>

\* snapshot["history"][i]["status"] = "edited"
SnapshotWriteRecord(i) ==
    /\ snap.taken
    /\ snap.writes < MaxSnapWrites
    /\ i \in 1..Len(snap.history)
    /\ recs' = [recs EXCEPT ![snap.history[i]].status = "edited"]
    /\ snap' = [snap EXCEPT !.writes = @ + 1]
    /\ UNCHANGED <<status, history, appends, upd, notState>>

StateNext ==
    \/ \E name \in UpdateNames, fields \in StatusUpdates : StateUpdate(name, fields)
    \/ StateAddHistory
    \/ StateSnapshot
    \/ \E i \in 1..Len(ServerList) : SnapshotWriteServer(i)
    \/ \E i \in 1..MaxStateAppends : SnapshotWriteRecord(i)

InitState ==
    /\ TreeParked /\ CtlInit /\ CallerInit /\ WebInit /\ RunnerInit /\ CycleParked
    /\ StateParked /\ LoopParked

SpecState == InitState /\ [][StateNext]_vars

(***************************************************************************)
(* The specifications.                                                     *)
(***************************************************************************)
TreeNext ==
    \/ SyncTreeStart
    \/ \E rel \in Paths, copyOk \in BOOLEAN : SyncTreeCopy(rel, copyOk)
    \/ \E rel \in Paths, unlinkOk \in BOOLEAN : SyncTreeDelete(rel, unlinkOk)

InitTree == TreeInit /\ CtlInit /\ CallerInit /\ WebInit /\ RunnerInit /\ CycleParked /\ StateParked /\ LoopParked

SpecTree == InitTree /\ [][TreeNext]_vars

CtlNext ==
    \/ \E t \in Callers : CallRequest(t)
    \/ \E t \in Callers : CallConsumeTest(t)
    \/ \E t \in Callers : CallConsumeClear(t)

InitCtl == TreeParked /\ CtlInit /\ CallerInit /\ WebInit /\ RunnerInit /\ CycleParked /\ StateParked /\ LoopParked

SpecCtl == InitCtl /\ [][CtlNext]_vars

\* SpecWeb: the runner threads, restart, and the dashboard's pause, resume
\* and dry-run requests.  No run-once request is made here, so the event is
\* never set and consume_run_once returns False at its test.
WebNext ==
    \/ \E r \in RuntimeIds : RunnerStarted(r)
    \/ \E r \in RuntimeIds : RunnerTop(r)
    \/ \E r \in RuntimeIds : RunnerConsumeTest(r)
    \/ \E r \in RuntimeIds : RunnerPausedTest(r)
    \/ \E r \in RuntimeIds : RunnerCycleEnd(r)
    \/ \E r \in RuntimeIds : RunnerSleep(r)
    \/ \E h \in Handlers, op \in FlagRequests : HandlerGet(h, op)
    \/ \E h \in Handlers : HandlerApply(h)
    \/ \E x \in Restarts : RestartBegin(x)
    \/ \E x \in Restarts : RestartJoin(x)
    \/ \E x \in Restarts : RestartInstall(x)

\* WebRuntime.start(): the first runner's thread is started.
InitWeb ==
    /\ TreeParked /\ CtlInit /\ CallerInit /\ WebInit /\ CycleParked
    /\ StateParked /\ LoopParked
    /\ rPc = [r \in RuntimeIds |-> IF r = 0 THEN "startup" ELSE "new"]
    /\ rStop = [r \in RuntimeIds |-> FALSE]
    /\ rSleep = [r \in RuntimeIds |-> 0]
    /\ rForced = [r \in RuntimeIds |-> FALSE]

SpecWeb == InitWeb /\ [][WebNext]_vars

\* SpecTwoRestarts: two save_config requests call restart at the same time
\* while the runner threads run; no other request is made.
TwoRestartsNext ==
    \/ \E r \in RuntimeIds : RunnerStarted(r)
    \/ \E r \in RuntimeIds : RunnerTop(r)
    \/ \E r \in RuntimeIds : RunnerConsumeTest(r)
    \/ \E r \in RuntimeIds : RunnerPausedTest(r)
    \/ \E r \in RuntimeIds : RunnerCycleEnd(r)
    \/ \E r \in RuntimeIds : RunnerSleep(r)
    \/ \E x \in Restarters : RestartBegin(x)
    \/ \E x \in Restarters : RestartJoin(x)
    \/ \E x \in Restarters : RestartInstall(x)

SpecTwoRestarts == InitWeb /\ [][TwoRestartsNext]_vars

\* SpecSave: the dashboard posts configuration documents while the runner
\* threads run.
SaveNext ==
    \/ \E r \in RuntimeIds : RunnerStarted(r)
    \/ \E r \in RuntimeIds : RunnerTop(r)
    \/ \E r \in RuntimeIds : RunnerConsumeTest(r)
    \/ \E r \in RuntimeIds : RunnerPausedTest(r)
    \/ \E r \in RuntimeIds : RunnerCycleEnd(r)
    \/ \E r \in RuntimeIds : RunnerSleep(r)
    \/ \E x \in Restarts, doc \in SaveDocs : SaveConfig(x, doc)
    \/ \E x \in Restarts : RestartJoin(x)
    \/ \E x \in Restarts : RestartInstall(x)

SpecSave == InitWeb /\ [][SaveNext]_vars

(***************************************************************************)
(* Tree Differ: the claims.                                                *)
(***************************************************************************)
TreeDone == tPc = "done"

\* The destination inventory equals the source inventory: the same relative
\* paths, each with the source file's content.
InventoryEqual ==
    /\ CollectFiles(tDest, tInc, tExc) = SrcFiles
    /\ \A rel \in SrcFiles : tDest[rel] = tSrc[rel]

\* Every file of the source inventory is at the destination with the source's
\* content.
SourceCopied == \A rel \in SrcFiles : tDest[rel] = tSrc[rel]

\* Every destination path outside the source inventory is as the call found it.
OthersUntouched == \A rel \in Paths \ SrcFiles : tDest[rel] = CurCall.dest0[rel]

\* C6: a _sync_tree call with dry_run=True leaves the destination as it found
\* it: the same files, the same contents and the same directories.
C6_DryRunLeavesDestination ==
    (Len(tCall) > 0 /\ tDry) =>
        (tDest = CurCall.dest0 /\ tDirs = CurCall.dirs0)

\* C7, as claimed: after any call with delete_extraneous=True the destination
\* inventory equals the source inventory.
C7_AnyCallEqualises == (TreeDone /\ tDel) => InventoryEqual

\* C7, amended: after a call with delete_extraneous=True and dry_run=False
\* that returns True, the destination inventory equals the source inventory.
C7_SuccessfulCallEqualises ==
    (TreeDone /\ tDel /\ ~tDry /\ CurCall.ret = "true") => InventoryEqual

C7_Witness ==
    /\ TreeDone /\ tDel /\ ~tDry /\ CurCall.ret = "true"
    /\ \E rel \in Paths : <<"delete", rel>> \in CurCall.ops
    /\ \E rel \in Paths : <<"update", rel>> \in CurCall.ops

\* C8: a call made right after a call that returned True, with dry_run=False
\* and the same arguments, creates, updates and deletes nothing and returns
\* True.
C8_Idempotent ==
    \A i \in 2..Len(tCall) :
        (~tDry /\ tCall[i - 1].ret = "true") =>
            /\ tCall[i].ops = {}
            /\ tCall[i].ret # "false"
            /\ (i < Len(tCall) \/ TreeDone) => tCall[i].ret = "true"

C8_Witness ==
    /\ TreeDone /\ Len(tCall) = 2 /\ ~tDry
    /\ tCall[1].ret = "true" /\ tCall[2].ret = "true"
    /\ \E r1, r2 \in Paths :
          <<"update", r1>> \in tCall[1].ops /\ <<"delete", r2>> \in tCall[1].ops

\* C9, as claimed: any call with delete_extraneous=False brings every file of
\* the source inventory to the destination and leaves every other destination
\* file untouched.
C9_AnyCallCopiesAndKeeps ==
    (TreeDone /\ ~tDel) => (SourceCopied /\ OthersUntouched)

\* C9, amended: a call with delete_extraneous=False leaves every destination
\* file outside the source inventory untouched, and when dry_run=False and it
\* returns True every file of the source inventory is at the destination with
\* the source's content.
C9_KeepsAndCopiesOnSuccess ==
    (Len(tCall) > 0 /\ ~tDel) =>
        /\ OthersUntouched
        /\ (TreeDone /\ ~tDry /\ CurCall.ret = "true") => SourceCopied

C9_Witness ==
    /\ TreeDone /\ ~tDel /\ ~tDry /\ CurCall.ret = "true"
    /\ <<"create", PathA>> \in CurCall.ops
    /\ PathSubB \in CurCall.destFiles \ SrcFiles
    /\ tDest[PathSubB] # Absent

(***************************************************************************)
(* Controller and WebRuntime: the claims.                                  *)
(***************************************************************************)
\* C3: at no time are two scheduler loops inside a reconciliation cycle: a
\* restart starts the new loop only after the previous loop has ended, also
\* when the previous loop's cycle outlasts the 5 seconds join waits.
C3_OneLoopInCycle ==
    \A a, b \in RuntimeIds : (rPc[a] = "cycle" /\ rPc[b] = "cycle") => a = b

\* C4: once no restart and no dashboard request is in progress, the
\* controller WebRuntime refers to holds the paused flag and the dry-run
\* override of the operator's most recent pause/resume and dry-run requests.
C4_IntentSurvivesRestart ==
    ((\A x \in Restarts : rsPc[x] = "idle") /\ (\A h \in Handlers : hPc[h] = "idle"))
        => (cPaused[wCur] = intent.paused /\ cDry[wCur] = intent.dry)

\* C5: consume_run_once returns True once per request_run_once call: at no
\* time have more consume_run_once calls returned True than
\* request_run_once calls were made.
C5_TrueOncePerRequest == kTrue <= kReq


(***************************************************************************)
(* Claims about the reconciliation cycle.                                  *)
(***************************************************************************)
\* The cycle of the enabled server is in progress or has just ended, and
\* its log still tells what it did.
Did(event) == cy.idx = 1 /\ event \in Range(cy.log)
CycleEnded == cy.idx = 1 /\ cy.pc = "next"
Count(event) == Cardinality({i \in 1..Len(cy.log) : cy.log[i] = event})

\* The files of the remote commit that the configuration's pattern takes to
\* the config target.
ConfigInventory(server, commit) ==
    {f \in Range(LsTree(commit)) : CopySelects(server, f.path)}

\* C1: in every cycle of a server the hard reset happens only after every
\* file of the remote ref that matches the config pattern and is not excluded
\* was fetched and parsed as JSON; when a file fails to parse or the listing
\* or a show fails, the cycle ends with lastStatus ERROR, without reset and
\* tree sync, and HEAD is the one from before the cycle.
C1_ResetOnlyAfterJsonParsed ==
    /\ Did("reset") =>
          \A f \in ConfigInventory("s1", cy.remote) :
              f.path \in cy.parsed /\ f.content = "json"
    /\ Did("validate failed") =>
          /\ cy.pc = "next"
          /\ status["s1"].last_status = "ERROR"
          /\ ~Did("reset") /\ ~Did("plugins") /\ ~Did("config")
          /\ repo["s1"].head = cy.head0

\* The cycle stamped last_deploy_time and appended its DeploymentRecord.
Stamped == status["s1"].last_deploy_time = clock
Appended ==
    /\ Len(history) = cy.hist0 + 1
    /\ history[Len(history)] = [server |-> "s1", commit |-> cy.remote,
                                timestamp |-> clock, status |-> "OK"]
NothingStamped ==
    /\ status["s1"].last_deploy_time # clock
    /\ Len(history) = cy.hist0

\* C2 as stated: for every server cycle, lastDeployTime is stamped and a
\* DeploymentRecord appended if and only if the remote commit the cycle
\* resolved differs from the local commit it resolved before the reset.
C2_StampedIffCommitsDiffer ==
    (CycleEnded /\ Did("resolve")) =>
        /\ (Stamped /\ Appended) <=> cy.local # cy.remote
        /\ NothingStamped <=> cy.local = cy.remote

\* C2, amended: a server cycle that passes validate, reset and both tree
\* syncs stamps lastDeployTime and appends one DeploymentRecord if and only
\* if the resolved remote commit differs from the local commit resolved
\* before the reset; a cycle that fails in any step stamps and appends
\* nothing.
C2_StampedIffCommitsDifferOnSuccess ==
    CycleEnded =>
        IF Did("record")
        THEN /\ (Stamped /\ Appended) <=> cy.local # cy.remote
             /\ NothingStamped <=> cy.local = cy.remote
        ELSE NothingStamped

\* A cycle deployed a new commit on top of an earlier deployment's record.
C2_Witness ==
    /\ CycleEnded /\ Did("record")
    /\ cy.local # cy.remote
    /\ Stamped /\ Appended
    /\ cy.hist0 = 1

\* C10: when the fetch fails on every attempt, exactly git_retry_count
\* attempts are made with a delay after each, the server's cycle ends with
\* lastStatus ERROR and no later step of the cycle runs; an attempt that
\* succeeds is the last one.
C10_FailedFetchUsesAllAttempts ==
    /\ (cy.idx = 1 /\ cy.pc \in {"next", "crashed"}
            /\ Did("fetch failed") /\ ~Did("fetch ok")) =>
          /\ Count("fetch failed") = settings.git_retry_count
          /\ Count("sleep") = settings.git_retry_count
          /\ cy.pc = "next"
          /\ status["s1"].last_status = "ERROR"
          /\ Range(cy.log) = {"fetch failed", "sleep"}
    /\ cy.idx = 1 => Count("fetch ok") <= 1
    /\ Did("fetch ok") => cy.pc # "fetch"


\* The steps whose failure ends a server's cycle, as the log names them.
Failures ==
    {"missing paths", "fetch failed", "resolve failed", "validate failed",
     "reset failed", "plugins failed", "config failed"}
FailedStep == cy.log[Len(cy.log)]
CycleFailed == CycleEnded /\ cy.log # <<>> /\ cy.log[Len(cy.log)] \in Failures \cup {"sleep"}

\* C11: whenever a server's cycle fails in a step, at the end of that cycle
\* the server's lastStatus is ERROR and lastError holds the message of that
\* failure: it is not null and not left over from an earlier cycle.
C11_FailureSetsStatusAndError ==
    CycleFailed =>
        /\ status["s1"].last_status = "ERROR"
        /\ status["s1"].last_error # "none"
        /\ status["s1"].last_error = (IF FailedStep = "sleep" THEN "fetch failed"
                                      ELSE FailedStep)

\* The enabled servers in configuration order.
EnabledServers == SelectSeq(ServerList, LAMBDA s : ServerConfig(s).enabled)

\* C12: a failure on one server never stops the scheduler loop nor affects
\* the other servers of the tick: a tick processes each enabled server once
\* in configuration order whatever the earlier servers' outcome, a server's
\* cycle changes no other server's ServerStatus, and the tick returns to the
\* loop.
C12_FailureStaysWithItsServer ==
    /\ cy.pc # "crashed"
    /\ cy.idx \in 1..Len(ServerList) /\ ServerConfig(CurServer).enabled =>
          \A s \in Servers \ {CurServer} : status[s] = cy.others0[s]
    /\ cy.pc = "idle" /\ ticks > 0 => cy.seen = EnabledServers

\* C20: the effective dry-run of a server's apply step is the global default
\* OR the controller's override, read once per server cycle: the plugins
\* sync and the config sync of one server's cycle get the same value even
\* when set_dry_run is called during the apply; the value may differ between
\* ticks.
C20_DryRunReadOncePerServer ==
    /\ [](\A i, j \in 1..Len(cy.used) : cy.used[i] = cy.used[j])
    /\ [][(cy.pc = "reset" /\ cy'.pc = "plugins") =>
             cy'.dry = (settings.dry_run \/ cDry[0])]_vars
    /\ [][(cy.pc \in {"plugins", "config"} /\ cy'.log # cy.log) =>
             cy'.used = Append(cy.used, cy.dry) /\ cy'.dry = cy.dry]_vars

\* Both syncs of a cycle ran as dry runs although the override was switched
\* off between them and the global default is off.
C20_Witness ==
    /\ Did("config") /\ cy.used = <<TRUE, TRUE>>
    /\ ~settings.dry_run /\ ~cDry[0]


(***************************************************************************)
(* Claims about SyncState.                                                 *)
(***************************************************************************)
Min(a, b) == IF a < b THEN a ELSE b

\* C13: after any sequence of add_history calls the history holds at most
\* 200 records and is exactly the most recent min(n, 200) appended records
\* in append order, the oldest evicted first.
C13_HistoryKeepsNewest200 ==
    /\ Len(history) = Min(appends, 200)
    /\ \A i \in 1..Len(history) :
          history[i] = RecordOf(appends - Len(history) + i)

\* After 205 appends the records 6..205 remain.
C13_Witness ==
    /\ appends = 205
    /\ Len(history) = 200
    /\ history[1] = RecordOf(6) /\ history[200] = RecordOf(205)


\* C14: snapshot() returns a copy, never a live reference: the statuses and
\* the history in a snapshot already returned are not changed by a later
\* update_server_status or add_history call, and a write into the returned
\* snapshot does not change the Runtime State.
C14_SnapshotIsACopy ==
    /\ [][(snap.taken /\ snap' = snap) =>
             (SnapServers' = SnapServers /\ SnapHistory' = SnapHistory)]_vars
    /\ [][(snap.taken /\ snap' # snap) =>
             (status' = status /\ HistoryView(history)' = HistoryView(history))]_vars


(***************************************************************************)
(* Claims about the scheduler loop.                                        *)
(***************************************************************************)
\* The loop's thread takes a step; the step calls _run_cycle.
LoopSteps == rPc'[0] # rPc[0] \/ rSleep'[0] # rSleep[0]
StartsCycle == rPc[0] # "cycle" /\ rPc'[0] = "cycle"

C16_ShortSleepAfterRunOnce ==
    [][(rPc[0] = "cycle" /\ rForced[0] /\ rPc'[0] = "sleep") =>
          rSleep'[0] = SleepTicks(ShortSeconds)]_vars

\* C17: the loop starts a cycle only in an iteration in which it consumed a
\* run-once request or read paused = false; while the controller stays
\* paused and no request is made, no cycle is started.
C17_CycleNeedsRequestOrUnpaused ==
    /\ [][StartsCycle => (rPc[0] = "clear" \/ (rPc[0] = "ispaused" /\ ~cPaused[0]))]_vars
    /\ [][(cPaused[0] /\ rPc[0] # "clear") => ~StartsCycle]_vars

\* The loop re-checks a controller that was paused and sleeps the short
\* interval instead of starting a cycle.
C17_Witness ==
    /\ rPc[0] = "sleep" /\ rSleep[0] = SleepTicks(ShortSeconds)
    /\ cPaused[0] /\ ~cRunOnce[0] /\ ~rStop[0]
    /\ lc.op = "pause" /\ lc.pc = "sleep"

C19_StopIsEffective ==
    /\ [][(rStop[0] /\ rPc[0] = "top" /\ LoopSteps) => rPc'[0] = "dead"]_vars
    /\ [][rPc[0] = "dead" => rPc'[0] = "dead"]_vars
    /\ [][(rStop[0] /\ rPc[0] = "sleep" /\ LoopSteps) => rPc'[0] = "top"]_vars
    /\ [][rStop[0] => rStop'[0]]_vars
    /\ rStop[0] ~> (rPc[0] = "dead")

\* stop() was called during a sleep with time left, and run_forever has
\* returned.
C19_Witness ==
    /\ rPc[0] = "dead"
    /\ lc.op = "stop" /\ lc.pc = "sleep" /\ lc.left > 1


(***************************************************************************)
(* Claims about restart.                                                   *)
(***************************************************************************)
\* C21: after restart completes, the new controller's paused flag and
\* dry-run override are the values the previous controller held when the
\* restart began, for every combination of the two flags (no controller
\* call being made in between).
C21_RestartCarriesFlags ==
    /\ [][\A x \in Restarters :
            (rsPc[x] = "idle" /\ rsPc'[x] = "join") =>
                (rsPaused'[x] = cPaused[wCur] /\ rsDry'[x] = cDry[wCur])]_vars
    /\ [][\A x \in Restarters :
            (rsPc[x] = "install" /\ rsPc'[x] = "idle") =>
                (cPaused'[wCur'] = rsPaused[x] /\ cDry'[wCur'] = rsDry[x])]_vars
    /\ [][\A x \in Restarters :
            (rsPc[x] = "install" /\ rsPc'[x] = "idle"
                /\ cPaused[wCur] = rsPaused[x] /\ cDry[wCur] = rsDry[x]) =>
                (cPaused'[wCur'] = cPaused[wCur] /\ cDry'[wCur'] = cDry[wCur])]_vars

\* A restart has completed and the new controller is paused and in dry-run
\* as the previous one is, its loop not yet entered.
C21_Witness ==
    /\ wCur = 1 /\ rPc[1] = "startup"
    /\ \A x \in Restarters : rsPc[x] = "idle"
    /\ cPaused[0] /\ cDry[0]
    /\ cPaused[1] /\ cDry[1]

\* C27: when two configuration updates call restart concurrently, after
\* both calls completed exactly one scheduler loop is running, it is the
\* one the WebRuntime refers to, and stop() has been called on every other
\* runner ever started.
C27_OneLoopAfterTwoRestarts ==
    ((\A x \in Restarters : rsPc[x] = "idle") /\ wNext = 3) =>
        /\ wThread = wCur
        /\ ~rStop[wCur]
        /\ \A r \in RuntimeIds \ {wCur} : rPc[r] # "new" => rStop[r]

\* C22: every Settings value the configuration produces has
\* interval_seconds > 0, git_retry_count > 0, git_timeout_seconds > 0,
\* startup_delay_seconds > 0 and git_retry_delay_seconds >= 0, and every
\* document breaking one of these bounds gives a configuration error.
C22_NumericBoundsAllOrNothing ==
    /\ settings.interval_seconds > 0
    /\ settings.git_retry_count > 0
    /\ settings.git_timeout_seconds > 0
    /\ settings.startup_delay_seconds > 0
    /\ settings.git_retry_delay_seconds >= 0
    /\ \A cfg \in ConfigDocs :
            (\/ cfg.IntervalSeconds <= 0
             \/ cfg.GitRetryCount <= 0
             \/ cfg.GitTimeoutSeconds <= 0
             \/ cfg.StartupDelaySeconds <= 0
             \/ cfg.GitRetryDelaySeconds < 0) => SettingsFromConfig(cfg) = ConfigError

\* C23: for any server, the order of its DeploymentRecords in history is the
\* order in which its deploys completed: a record written in a later tick
\* never stands before a record written in an earlier tick.
C23_HistoryInDeployOrder ==
    \A i, j \in 1..Len(history) :
        (i < j /\ history[i].server = history[j].server) =>
            history[i].timestamp < history[j].timestamp

\* Two deploys of one server, completed in two ticks, are both in history.
C23_Witness ==
    /\ Len(history) = 2
    /\ history[1].server = "s1" /\ history[2].server = "s1"
    /\ history[1].commit # history[2].commit
    /\ ticks = 2

ApplyEvents ==
    LET IsApply(e) == e \in {"reset", "reset failed", "plugins", "plugins failed",
                             "config", "config failed", "record"}
    IN  SelectSeq(cy.log, IsApply)
ApplyOrders ==
    {<<>>, <<"reset failed">>, <<"reset">>,
     <<"reset", "plugins failed">>, <<"reset", "plugins">>,
     <<"reset", "plugins", "config failed">>, <<"reset", "plugins", "config">>,
     <<"reset", "plugins", "config", "record">>}

\* C25: Apply runs hard reset, then the plugins sync, then the config sync;
\* the first step that fails ends the server's cycle with lastStatus ERROR,
\* no later step and no Record runs (lastCommit keeps its value, history
\* gets no record), and nothing is rolled back: HEAD stays at the remote
\* commit and a tree already copied stays copied.
C25_ApplyInOrderWithoutRollback ==
    /\ [](cy.idx = 1 => ApplyEvents \in ApplyOrders)
    /\ [][(cy.idx = 1 /\ cy.pc \in {"reset", "plugins", "config"}
                /\ cy'.pc = "next") =>
            /\ status'["s1"].last_status = "ERROR"
            /\ status'["s1"].last_commit = status["s1"].last_commit
            /\ status'["s1"].last_deploy_time = status["s1"].last_deploy_time
            /\ history' = history
            /\ repo' = repo /\ targets' = targets]_vars
    /\ []((CycleEnded /\ (Did("plugins failed") \/ Did("config failed"))) =>
            /\ repo["s1"].head = cy.remote
            /\ Len(history) = cy.hist0
            /\ status["s1"].last_status = "ERROR")
    /\ []((CycleEnded /\ Did("config failed") /\ ~cy.dry) =>
            targets["s1"].plugins = cy.remote)

\* The config sync of a new commit failed after the reset and the plugins
\* sync of that cycle had been done.
C25_Witness ==
    /\ CycleEnded /\ Did("config failed") /\ ~cy.dry
    /\ cy.local # cy.remote
    /\ repo["s1"].head = cy.remote
    /\ targets["s1"].plugins = cy.remote
    /\ targets["s1"].config # cy.remote
    /\ status["s1"].last_status = "ERROR"
    /\ status["s1"].last_commit # cy.remote

\* The create and update operations the current _sync_tree call performed.
CopiesMade ==
    {rel \in Paths : <<"create", rel>> \in CurCall.ops \/ <<"update", rel>> \in CurCall.ops}

\* C26: within one _sync_tree call no extraneous file is deleted before the
\* create/update loop has gone through the whole source inventory; the
\* step in which a create, update or delete fails changes nothing, ends the
\* call with False, no deletion follows it, and the copies already made
\* stay in the destination.
C26_DeleteOnlyAfterCopiesAndStopOnFailure ==
    /\ [](tPc = "delete" => tTodo = {})
    /\ [][\A rel \in Paths :
            (tDest[rel] # Absent /\ tDest'[rel] = Absent) =>
                (tPc = "delete" /\ tTodo = {} /\ rel \in tExtras)]_vars
    /\ [][(Len(tCall) > 0 /\ Len(tCall') = Len(tCall)
                /\ CurCall.ret # "false" /\ tCall'[Len(tCall)].ret = "false") =>
            /\ tDest' = tDest
            /\ tPc' = "done"
            /\ tCall'[Len(tCall)].ops = CurCall.ops]_vars
    /\ [][(tPc = "done" /\ Len(tCall') = Len(tCall)) => tDest' = tDest]_vars
    /\ []((Len(tCall) > 0 /\ CurCall.ret = "false") =>
            /\ tPc = "done"
            /\ \A rel \in CopiesMade : tDest[rel] = tSrc[rel])

\* A call copied a file and then failed to delete an extraneous one, which
\* is still in the destination.
C26_Witness ==
    /\ Len(tCall) > 0 /\ CurCall.ret = "false" /\ tPc = "done"
    /\ tDel /\ ~tDry
    /\ CopiesMade # {}
    /\ \E rel \in CurCall.destFiles \ SrcFiles : tDest[rel] # Absent

\* C28: every file the Apply step copies to the config target was fetched and
\* parsed by the Validate step of the same cycle: for the pattern lists of
\* the settings, the files of a commit selected for validation contain the
\* files selected for copying.
C28_ValidationCoversCopy ==
    /\ \A commit \in Commits : \A i \in 1..Len(LsTree(commit)) :
            CopySelects("s1", LsTree(commit)[i].path) =>
                ValidateSelects("s1", LsTree(commit)[i].path)
    /\ (CycleEnded /\ Did("config") /\ ~cy.dry) =>
            \A f \in ConfigInventory("s1", cy.remote) : f.path \in cy.parsed

\* The state the later cycles of SpecRetry start from is one the first cycle
\* of SpecCycle leaves.
FirstCycleDone == AfterFirstCycle /\ ticks = 1

\* C29: whenever a server's lastCommit changes from one commit to a different
\* commit, a DeploymentRecord for the new commit is appended in that same
\* step of the cycle, also when an earlier cycle reset the clone to that
\* commit and then failed in a tree sync.
C29_LastCommitChangeIsRecorded ==
    [][(status["s1"].last_commit # NoCommit
            /\ status'["s1"].last_commit # status["s1"].last_commit) =>
        /\ Len(history') = Len(history) + 1
        /\ history'[Len(history')].server = "s1"
        /\ history'[Len(history')].commit = status'["s1"].last_commit]_vars

\* C30: a server cycle run with the effective dry-run on is never recorded
\* as a deploy: it appends no DeploymentRecord and does not stamp
\* lastDeployTime.
C30_DryRunCycleNotRecorded ==
    (CycleEnded /\ Did("reset") /\ cy.dry) => NothingStamped

\* C31: a save_config request whose document fails validation changes
\* nothing: the errors are returned, the configuration file is not
\* rewritten, no scheduler loop is stopped, and the WebRuntime's settings,
\* state, controller and runner are the ones it had, with the same contents.
C31_RejectedSaveChangesNothing ==
    [][\A x \in Restarts, doc \in SaveDocs :
          (SaveConfig(x, doc) /\ ValidationFails(doc)) =>
            /\ resp'[x] = "errors"
            /\ cfgFile' = cfgFile
            /\ wSettings' = wSettings
            /\ wCur' = wCur /\ wThread' = wThread /\ wNext' = wNext
            /\ rStop' = rStop /\ rPc' = rPc
            /\ cPaused' = cPaused /\ cDry' = cDry /\ cRunOnce' = cRunOnce
            /\ rsPc' = rsPc /\ rsNew' = rsNew
            /\ status' = status /\ history' = history]_vars

\* A document was rejected after an earlier one had been applied: the file
\* and the settings are those of the applied document and its loop runs.
C31_Witness ==
    /\ resp["r1"] = "errors"
    /\ rsPc["r1"] = "idle"
    /\ wCur = 1 /\ wThread = 1
    /\ cfgFile # StartDoc
    /\ wSettings = SettingsFromConfig(cfgFile)
    /\ rPc[1] \in {"startup", "top", "cycle", "sleep"}
    /\ ~rStop[1]

=============================================================================
